---- MODULE Spec2Model ----
(***************************************************************************)
(* A model of cavy's Tester component (src/src/Tester.js): construction    *)
(* and reporter resolution, componentDidMount, the asynchronous runTests   *)
(* loop over the spec functions, reRender, clearAsync and render.          *)
(*                                                                         *)
(* TestScope, TestRunner, Reporter, TestHookStore and AsyncStorage are     *)
(* imported by Tester.js but are not part of it; what the model needs of   *)
(* them is written from the design document and is kept apart below.       *)
(***************************************************************************)
EXTENDS Integers, Sequences, FiniteSets, TLC

(* ------------------------------ bounds -------------------------------- *)

\* longest specs array
MaxSpecs == 2
\* most cases one spec function declares
MaxCases == 1

(* ------------------------------ values -------------------------------- *)

\* values Math.random() may return for the key of the wrapped subtree
KeyVals == {1, 2}
\* the TestHookStore instances an application may pass as props.store
StoreIds == {"storeA", "storeB"}
\* identifiers the host tree may register in the TestHookStore
HookIds == {"submit-button"}
\* keys that may live in AsyncStorage
StorageKeys == {"token"}

\* what a spec function does when it is invoked: it throws, or it returns a
\* promise that resolves, rejects or never settles
SpecOutcomes == {"resolve", "reject", "throw", "never"}
\* one invocation of a spec function: the number of cases it declares
\* synchronously on its scope, and how it ends
SpecBehaviours == [ncases : 0..MaxCases, outcome : SpecOutcomes]

\* the specs arrays an application may pass: n distinct spec functions
SpecArrays == {[i \in 1..n |-> i] : n \in 0..MaxSpecs}

\* JavaScript values the reporter prop (and this.reporter) can hold.
\*   isFunction    : value instanceof Function
\*   constructible : `new value` succeeds
\*   type          : value.type
Undefined == [ident |-> "undefined", isFunction |-> FALSE, constructible |-> FALSE, type |-> "none"]
\* a plain report function, report => ...
ReportFn == [ident |-> "reportFn", isFunction |-> TRUE, constructible |-> TRUE, type |-> "none"]
\* a custom reporter class whose instances have type 'realtime'
ReporterClass == [ident |-> "CustomReporter", isFunction |-> TRUE, constructible |-> TRUE, type |-> "none"]
\* an object exposing onStart, onTestResult and onComplete
SinkInstance == [ident |-> "sinkObject", isFunction |-> FALSE, constructible |-> FALSE, type |-> "realtime"]
\* the built-in Reporter class imported from ./Reporter
Reporter == [ident |-> "Reporter", isFunction |-> TRUE, constructible |-> TRUE, type |-> "none"]

ReporterOptions == {Undefined, ReportFn, ReporterClass, SinkInstance}
\* the type field the built-in Reporter's constructor may set
BuiltinTypes == {"realtime", "deferred"}

\* new C : an instance of class C whose type field is t
NewInstance(C, t) ==
    [ident |-> "new " \o C.ident, isFunction |-> FALSE, constructible |-> FALSE, type |-> t]

\* value || fallback
OrElse(value, fallback) == IF value = Undefined THEN fallback ELSE value

\* Tester.defaultProps
DefaultWaitTime == 2000
DefaultStartDelay == 0
DefaultClearAsyncStorage == FALSE

\* an option that was not supplied; a supplied option v is <<v>>
NotGiven == <<>>
\* the numeric and filter options an application may supply together
GivenOptions ==
    { [waitTime |-> NotGiven, startDelay |-> NotGiven, only |-> NotGiven],
      [waitTime |-> <<500>>, startDelay |-> <<100>>, only |-> <<"logs in">>] }

\* React's resolution of a prop against Tester.defaultProps
WithDefault(given, default) == IF given = NotGiven THEN default ELSE given[1]

VARIABLES
    props,          \* the props the Tester was created with, defaults applied
                    \* (props.given: the options as the application supplied them)
    phase,          \* "new", "constructed", "threw", "mounted"
    error,          \* what the constructor threw, "none" otherwise
    key,            \* this.state.key
    testHookStore,  \* this.testHookStore
    reporter,       \* this.reporter
    rendered,       \* the <TesterContext.Provider> element last returned by render
    runPc,          \* runTests: "idle", "awaiting", "done", "rejected"
    specIdx,        \* runTests: i, 1-based
    awaited,        \* runTests: how the promise awaited on line 91 ends
    testSuites,     \* runTests: the scopes pushed so far
    scopes,         \* every TestScope created so far, by identity
    runTestsCalls,  \* how often runTests was started
    runners,        \* the TestRunner instances constructed, with their arguments
    runCalls,       \* how often runner.run() was invoked
    runnerPc,       \* the runner: "none", "running", "clearing", "body", "complete"
    caseIdx,        \* the runner: next case of the flattened list
    lingering,      \* some timed-out case body is still running
    log,            \* the calls made and the spec promises resolved so far, in order
    store,          \* the keys AsyncStorage holds
    clearPc,        \* clearAsync: "idle", "enumerating", "enumerated", "removing", "removed"
    snapshot,       \* clearAsync: the keys getAllKeys resolved with
    clearOutcome,   \* the last clearAsync promise: "none", "pending", "resolved", "rejected"
    warned,         \* the error the last clearAsync call warned about, or "none"
    storageCalled,  \* clearAsync has called getAllKeys or multiRemove
    written,        \* keys written since getAllKeys enumerated, while clearAsync is suspended
    hooks,          \* identifiers registered in the TestHookStore
    reRendered      \* reRender was called

vars == << props, phase, error, key, testHookStore, reporter, rendered, runPc, specIdx, awaited,
           testSuites, scopes, runTestsCalls, runners, runCalls, runnerPc, caseIdx,
           lingering, log, store, clearPc, snapshot, clearOutcome, warned,
           storageCalled, written, hooks, reRendered >>

testerVars == << props, phase, error, key, testHookStore, reporter, rendered >>
runTestsVars == << runPc, specIdx, awaited, testSuites, scopes, runTestsCalls, runners, runCalls >>
runnerVars == << runnerPc, caseIdx, lingering >>
storageVars == << store, clearPc, snapshot, clearOutcome, warned, storageCalled,
                 written >>

Init ==
    /\ \E specs \in SpecArrays, r \in ReporterOptions,
          c \in {NotGiven, <<TRUE>>}, s \in StoreIds, g \in GivenOptions :
            props = [ specs |-> specs,
                      reporter |-> r,
                      store |-> s,
                      given |-> [ clearAsyncStorage |-> c, waitTime |-> g.waitTime,
                                  startDelay |-> g.startDelay ],
                      clearAsyncStorage |-> WithDefault(c, DefaultClearAsyncStorage),
                      waitTime |-> WithDefault(g.waitTime, DefaultWaitTime),
                      startDelay |-> WithDefault(g.startDelay, DefaultStartDelay),
                      only |-> g.only ]
    /\ phase = "new"
    /\ error = "none"
    /\ key = 0
    /\ testHookStore = "unset"
    /\ reporter = Undefined
    /\ rendered = [key |-> 0, value |-> "unset"]
    /\ runPc = "idle"
    /\ specIdx = 1
    /\ awaited = "none"
    /\ testSuites = <<>>
    /\ scopes = <<>>
    /\ runTestsCalls = 0
    /\ runners = <<>>
    /\ runCalls = 0
    /\ runnerPc = "none"
    /\ caseIdx = 1
    /\ lingering = FALSE
    /\ log = <<>>
    /\ store \in SUBSET StorageKeys
    /\ clearPc = "idle"
    /\ snapshot = {}
    /\ clearOutcome = "none"
    /\ warned = "none"
    /\ storageCalled = FALSE
    /\ written = {}
    /\ hooks = {}
    /\ reRendered = FALSE

(* ----------------------- constructor (lines 54-74) --------------------- *)

\* mutant: an object that is not a function is used as the reporter as it is
ResolveReporterTakesObject(option, strict, builtinType) ==
    IF option.isFunction \/ option # Undefined
    THEN [error |-> "none", reporter |-> option]
    ELSE [error |-> "none", reporter |-> NewInstance(Reporter, builtinType)]

\* Line 71 assigns to reporterClass, which is declared nowhere.  In strict
\* code (what an ES module is) the assignment throws a ReferenceError; a
\* bundler that emits the module as sloppy code lets it create a global.
\* Both builds exist, so strict is chosen by the environment.
\* builtinType is the type field the imported Reporter gives its instances.
ResolveReporter(option, strict, builtinType) ==
    IF option.isFunction
    THEN [error |-> "none", reporter |-> option]
    ELSE IF strict
    THEN [error |-> "ReferenceError", reporter |-> Undefined]
    ELSE LET reporterClass == OrElse(option, Reporter)
         IN  IF reporterClass.constructible
             THEN [error |-> "none", reporter |-> NewInstance(reporterClass, builtinType)]
             ELSE [error |-> "TypeError", reporter |-> Undefined]

Constructor ==
    /\ phase = "new"
    /\ \E k \in KeyVals, strict \in BOOLEAN, builtinType \in BuiltinTypes :
        LET r == ResolveReporter(props.reporter, strict, builtinType)
        IN  /\ key' = k
            /\ testHookStore' = props.store
            /\ error' = r.error
            /\ reporter' = r.reporter
            /\ phase' = IF r.error = "none" THEN "constructed" ELSE "threw"
    /\ UNCHANGED << props, rendered, runTestsVars, runnerVars, log, storageVars, hooks,
                    reRendered >>

(* -------------------------- render (125-131) --------------------------- *)

\* <TesterContext.Provider key={this.state.key} value={this.testHookStore}>
Render(k, hookStore) == [key |-> k, value |-> hookStore]

(* ------------------------- runTests (85-108) --------------------------- *)

Event(name, n) == [ev |-> name, n |-> n]

\* the cases a spec function declares on its scope while it is invoked: n
\* calls of scope.describe
Declared(spec, n) == [j \in 1..n |-> << spec, j >>]

\* mutant: the scope is created without the configured waitTime
NewTestScopeDefaultWait(waitTime) == [cases |-> << >>, waitTime |-> DefaultWaitTime]

\* new TestScope(this, waitTime)
NewTestScope(waitTime) == [cases |-> << >>, waitTime |-> waitTime]

\* mutant: the loop stops one spec early
LoopContinuesOffByOne(i) == i < Len(props.specs)

\* the loop condition of line 89, i < specs.length (i is 1-based here)
LoopContinues(i) == i <= Len(props.specs)

\* mutant: the array is walked from its end
SpecAtReversed(i) == props.specs[Len(props.specs) + 1 - i]

\* the spec function invoked on line 91, specs[i]
SpecAt(i) == props.specs[i]

\* runTests from the head of its loop with i and testSuites as given, up to
\* the next await or to its end: either a new scope is created and specs[i]
\* is invoked with it and behaves as b says, or the loop is over, the runner
\* is constructed and run() is invoked.
RunTestsFrom(i, suites, b) ==
    IF LoopContinues(i)
    THEN LET scope == NewTestScope(props.waitTime)
             invoked == [scope EXCEPT !.cases = Declared(SpecAt(i), b.ncases)]
         IN  [ pc |-> IF b.outcome = "throw" THEN "rejected" ELSE "awaiting",
               i |-> i,
               awaited |-> IF b.outcome = "throw" THEN "none" ELSE b.outcome,
               suites |-> suites,
               scopes |-> Append(scopes, invoked),
               runners |-> runners,
               runCalls |-> runCalls,
               runnerPc |-> runnerPc,
               events |-> << Event("spec", SpecAt(i)) >> ]
    ELSE [ pc |-> "done",
           i |-> i,
           awaited |-> "none",
           suites |-> suites,
           scopes |-> scopes,
           runners |-> Append(runners, [ testSuites |-> suites,
                                         startDelay |-> props.startDelay,
                                         reporter |-> reporter,
                                         only |-> props.only ]),
           runCalls |-> runCalls + 1,
           runnerPc |-> "running",
           events |-> << Event("newRunner", 0), Event("run", 0) >> ]

(* --------------------- componentDidMount (76-82) ----------------------- *)

\* the test of lines 78-79
Realtime(r) == ~r.isFunction /\ r.type = "realtime"

\* mutant: the instanceof test is not negated
OnStartCallsInverted(r) ==
    IF r.isFunction /\ r.type = "realtime" THEN << Event("onStart", 0) >> ELSE << >>

\* the calls componentDidMount makes on the reporter after runTests returned
OnStartCalls(r) ==
    IF Realtime(r) THEN << Event("onStart", 0) >> ELSE << >>

\* mutant: onStart is called before runTests
MountCallsOnStartFirst(runTestsEvents, r) == OnStartCalls(r) \o runTestsEvents

\* the order of lines 77-81: what runTests does up to its first await (or to
\* its end), then the onStart call
MountCalls(runTestsEvents, r) == runTestsEvents \o OnStartCalls(r)

ComponentDidMount ==
    /\ phase = "constructed"
    /\ \E b \in SpecBehaviours :
        LET r == RunTestsFrom(1, << >>, b)
        IN /\ runPc' = r.pc
           /\ specIdx' = r.i
           /\ awaited' = r.awaited
           /\ testSuites' = r.suites
           /\ scopes' = r.scopes
           /\ runners' = r.runners
           /\ runCalls' = r.runCalls
           /\ runnerPc' = r.runnerPc
           /\ log' = log \o MountCalls(r.events, reporter)
    /\ runTestsCalls' = runTestsCalls + 1
    /\ rendered' = Render(key, testHookStore)
    /\ phase' = "mounted"
    /\ UNCHANGED << props, error, key, testHookStore, reporter, caseIdx, lingering,
                    storageVars, hooks, reRendered >>

\* the promise awaited on line 91 resolves: the scope is pushed and the loop goes on
SpecResolves ==
    /\ runPc = "awaiting"
    /\ awaited = "resolve"
    /\ \E b \in SpecBehaviours :
        LET r == RunTestsFrom(specIdx + 1, Append(testSuites, Len(scopes)), b)
        IN /\ runPc' = r.pc
           /\ specIdx' = r.i
           /\ awaited' = r.awaited
           /\ testSuites' = r.suites
           /\ scopes' = r.scopes
           /\ runners' = r.runners
           /\ runCalls' = r.runCalls
           /\ runnerPc' = r.runnerPc
           /\ log' = Append(log, Event("resolved", SpecAt(specIdx))) \o r.events
    /\ UNCHANGED << testerVars, runTestsCalls, caseIdx, lingering, storageVars, hooks,
                    reRendered >>

\* mutant: the rejection is swallowed and the awaited promise resolves
SpecRejectsSwallowed ==
    /\ runPc = "awaiting"
    /\ awaited = "reject"
    /\ awaited' = "resolve"
    /\ UNCHANGED << testerVars, runPc, specIdx, testSuites, scopes, runTestsCalls, runners,
                    runCalls, runnerVars, log, storageVars, hooks, reRendered >>

\* the promise awaited on line 91 rejects: runTests ends with a rejected promise
SpecRejects ==
    /\ runPc = "awaiting"
    /\ awaited = "reject"
    /\ runPc' = "rejected"
    /\ awaited' = "none"
    /\ UNCHANGED << testerVars, specIdx, testSuites, scopes, runTestsCalls, runners,
                    runCalls, runnerVars, log, storageVars, hooks, reRendered >>

(* ------------------------- reRender (110-112) -------------------------- *)

\* mutant: reRender also replaces the store by a new, empty one
ReRenderNewStore ==
    /\ phase = "mounted"
    /\ \E k \in KeyVals :
        /\ key' = k
        /\ rendered' = Render(k, "new TestHookStore")
    /\ testHookStore' = "new TestHookStore"
    /\ hooks' = {}
    /\ reRendered' = TRUE
    /\ UNCHANGED << props, phase, error, reporter, runTestsVars, runnerVars, log,
                    storageVars >>

\* mutant: the new key remounts the Tester itself, not only the subtree
ReRenderRemounts ==
    /\ phase = "mounted"
    /\ \E k \in KeyVals : key' = k
    /\ phase' = "constructed"
    /\ reRendered' = TRUE
    /\ UNCHANGED << props, error, testHookStore, reporter, rendered, runTestsVars,
                    runnerVars, log, storageVars, hooks >>

\* this.setState({key: Math.random()}), and the render React then makes
ReRender ==
    /\ phase = "mounted"
    /\ \E k \in KeyVals :
        /\ key' = k
        /\ rendered' = Render(k, testHookStore)
    /\ reRendered' = TRUE
    /\ UNCHANGED << props, phase, error, testHookStore, reporter, runTestsVars, runnerVars,
                    log, storageVars, hooks >>

(* ------------------------ clearAsync (114-123) ------------------------- *)

\* the errors a storage operation may end with
StorageErrors == {"getAllKeys threw", "getAllKeys rejected", "multiRemove threw",
                  "multiRemove rejected"}

\* mutant: no catch, the error of the storage operation leaves clearAsync
TryCatchMissing(e) ==
    [outcome |-> IF e = "none" THEN "resolved" ELSE "rejected", warned |-> "none"]

\* the try/catch of lines 117-121 around the awaited chain, which ended with
\* error e ("none": it did not fail): an error is caught and logged, and
\* either way the promise of clearAsync resolves
TryCatch(e) == [outcome |-> "resolved", warned |-> e]

\* mutant: the option is not consulted
ClearsStorageAlways == TRUE

\* whether clearAsync touches AsyncStorage at all (line 116)
ClearsStorage == props.clearAsyncStorage

\* mutant: multiRemove is called without the keys
KeysToRemoveNone(enumerated) == {}

\* the keys multiRemove is called with: the ones getAllKeys resolved with
KeysToRemove(enumerated) == enumerated

\* clearAsync up to its await.  With the option off it returns a resolved
\* promise; otherwise getAllKeys() is called and either throws at once or
\* returns a pending promise.
ClearAsyncCall ==
    IF ~ClearsStorage
       THEN /\ clearOutcome' = "resolved"
            /\ warned' = "none"
            /\ UNCHANGED << store, clearPc, snapshot, storageCalled, written >>
       ELSE /\ storageCalled' = TRUE
            /\ \E threw \in BOOLEAN :
                IF threw
                THEN /\ clearOutcome' = TryCatch("getAllKeys threw").outcome
                     /\ warned' = TryCatch("getAllKeys threw").warned
                     /\ UNCHANGED clearPc
                ELSE /\ clearOutcome' = "pending"
                     /\ warned' = "none"
                     /\ clearPc' = "enumerating"
            /\ UNCHANGED << store, snapshot, written >>

\* getAllKeys settles: it rejects, or the store enumerates its keys
GetAllKeysSettles ==
    /\ clearPc = "enumerating"
    /\ \E failed \in BOOLEAN :
        IF failed
        THEN /\ clearOutcome' = TryCatch("getAllKeys rejected").outcome
             /\ warned' = TryCatch("getAllKeys rejected").warned
             /\ clearPc' = "idle"
             /\ UNCHANGED << snapshot, written >>
        ELSE /\ snapshot' = store
             /\ written' = {}
             /\ clearPc' = "enumerated"
             /\ UNCHANGED << clearOutcome, warned >>
    /\ UNCHANGED << testerVars, runTestsVars, runnerVars, log, store, storageCalled, hooks, reRendered >>

\* .then(AsyncStorage.multiRemove): multiRemove is called with the keys and
\* either throws at once or returns a pending promise
ThenMultiRemove ==
    /\ clearPc = "enumerated"
    /\ storageCalled' = TRUE
    /\ \E threw \in BOOLEAN :
        IF threw
        THEN /\ clearOutcome' = TryCatch("multiRemove threw").outcome
             /\ warned' = TryCatch("multiRemove threw").warned
             /\ clearPc' = "idle"
             /\ snapshot' = {}
             /\ written' = {}
        ELSE /\ snapshot' = KeysToRemove(snapshot)
             /\ clearPc' = "removing"
             /\ UNCHANGED << clearOutcome, warned, written >>
    /\ UNCHANGED << testerVars, runTestsVars, runnerVars, log, store, hooks,
                    reRendered >>

\* multiRemove settles: it rejects, or the store removes the keys it was given
MultiRemoveSettles ==
    /\ clearPc = "removing"
    /\ \E failed \in BOOLEAN :
        IF failed
        THEN /\ clearOutcome' = TryCatch("multiRemove rejected").outcome
             /\ warned' = TryCatch("multiRemove rejected").warned
             /\ clearPc' = "idle"
             /\ snapshot' = {}
             /\ written' = {}
             /\ UNCHANGED store
        ELSE /\ store' = store \ snapshot
             /\ clearPc' = "removed"
             /\ UNCHANGED << clearOutcome, warned, snapshot, written >>
    /\ UNCHANGED << testerVars, runTestsVars, runnerVars, log, storageCalled,
                    hooks, reRendered >>

\* the await of line 118 returns and clearAsync runs to its end
ClearAsyncReturns ==
    /\ clearPc = "removed"
    /\ clearOutcome' = TryCatch("none").outcome
    /\ warned' = TryCatch("none").warned
    /\ clearPc' = "idle"
    /\ snapshot' = {}
    /\ written' = {}
    /\ UNCHANGED << testerVars, runTestsVars, runnerVars, log, store, storageCalled, hooks, reRendered >>

(* ---- the collaborators of Tester.js, from the design document ---------- *)

\* section 4.4 step 2: the cases of all scopes handed to the runner, in order
RECURSIVE Flatten(_)
Flatten(suites) ==
    IF suites = << >> THEN << >>
    ELSE scopes[Head(suites)].cases \o Flatten(Tail(suites))

RunnerCases == IF runners = << >> THEN << >> ELSE Flatten(runners[1].testSuites)

\* section 4.4 step 4a: before a case the runner awaits the clearAsync hook
RunnerBeginsCase ==
    /\ runnerPc = "running"
    /\ caseIdx <= Len(RunnerCases)
    /\ ClearAsyncCall
    /\ runnerPc' = "clearing"
    /\ UNCHANGED << testerVars, runTestsVars, caseIdx, lingering, log, hooks, reRendered >>

\* section 4.4 step 4b: the hook resolved, the case body is invoked
RunnerInvokesBody ==
    /\ runnerPc = "clearing"
    /\ clearOutcome = "resolved"
    /\ runnerPc' = "body"
    /\ log' = Append(log, Event("body", caseIdx))
    /\ UNCHANGED << testerVars, runTestsVars, caseIdx, lingering, storageVars, hooks,
                    reRendered >>

\* section 4.4 step 4b: the body settles, or the timeout elapses first and the
\* body is left running
RunnerEndsCase ==
    /\ runnerPc = "body"
    /\ \E timedOut \in BOOLEAN : lingering' = (lingering \/ timedOut)
    /\ caseIdx' = caseIdx + 1
    /\ runnerPc' = "running"
    /\ UNCHANGED << testerVars, runTestsVars, log, storageVars, hooks, reRendered >>

\* section 4.4 step 5: the report is delivered to the reporter
RunnerCompletes ==
    /\ runnerPc = "running"
    /\ caseIdx > Len(RunnerCases)
    /\ runnerPc' = "complete"
    /\ log' = Append(log, Event("report", 0))
    /\ UNCHANGED << testerVars, runTestsVars, caseIdx, lingering, storageVars, hooks,
                    reRendered >>

\* section 5: a case body, running or left running after its timeout, writes
\* a key to the persistence store
BodyWrites ==
    /\ runnerPc = "body" \/ lingering
    /\ \E k \in StorageKeys :
        /\ store' = store \cup {k}
        /\ written' = IF clearPc \in {"enumerated", "removing", "removed"}
                      THEN written \cup {k} ELSE written
    /\ UNCHANGED << testerVars, runTestsVars, runnerVars, log, clearPc, snapshot,
                    clearOutcome, warned, storageCalled, hooks, reRendered >>

\* section 4.3: describe(description, caseBody) appends a Test Case to the scope
Describe(scope, case) == [scope EXCEPT !.cases = Append(@, case)]

\* the scope holds a case that was declared after the promise of its spec
\* function resolved (such a case is numbered 0)
HasLateCase(scope) == \E c \in 1..Len(scope.cases) : scope.cases[c][2] = 0

\* The code of a spec function whose promise has resolved still holds its
\* scope, the object that line 92 pushed to testSuites, and calls describe on
\* it while runTests awaits a later spec.  One such call is followed per run.
LateDescribe ==
    /\ runPc = "awaiting"
    /\ \A j \in 1..Len(scopes) : ~HasLateCase(scopes[j])
    /\ \E k \in 1..Len(testSuites) :
        LET id == testSuites[k]
        IN  scopes' = [scopes EXCEPT ![id] = Describe(@, << SpecAt(id), 0 >>)]
    /\ UNCHANGED << testerVars, runPc, specIdx, awaited, testSuites, runTestsCalls, runners,
                    runCalls, runnerVars, log, storageVars, hooks, reRendered >>

\* section 4.1: the host tree registers and unregisters elements as they
\* mount and unmount
HostRegisters ==
    /\ phase = "mounted"
    /\ \E h \in HookIds \ hooks : hooks' = hooks \cup {h}
    /\ UNCHANGED << testerVars, runTestsVars, runnerVars, log, storageVars, reRendered >>

HostUnregisters ==
    /\ phase = "mounted"
    /\ \E h \in hooks : hooks' = hooks \ {h}
    /\ UNCHANGED << testerVars, runTestsVars, runnerVars, log, storageVars, reRendered >>

(* --------------------------- specification ----------------------------- *)

Next ==
    \/ Constructor
    \/ ComponentDidMount
    \/ SpecResolves
    \/ SpecRejects
    \/ ReRender
    \/ GetAllKeysSettles
    \/ ThenMultiRemove
    \/ MultiRemoveSettles
    \/ ClearAsyncReturns
    \/ RunnerBeginsCase
    \/ RunnerInvokesBody
    \/ RunnerEndsCase
    \/ RunnerCompletes
    \/ BodyWrites
    \/ HostRegisters
    \/ HostUnregisters

Spec == Init /\ [][Next]_vars

\* The same program with spec functions that do not keep to section 4.3
\* (describe is to be called during spec registration only) and declare a
\* case late.
NextLate == Next \/ LateDescribe

SpecLate == Init /\ [][NextLate]_vars

\* The steps of the Tester, its runner and the storage alone: no reRender
\* call, no registration by the host tree and no write of a case body, none
\* of which touches runTests, the runner or the log.
NextOfRun ==
    \/ Constructor
    \/ ComponentDidMount
    \/ SpecResolves
    \/ SpecRejects
    \/ GetAllKeysSettles
    \/ ThenMultiRemove
    \/ MultiRemoveSettles
    \/ ClearAsyncReturns
    \/ RunnerBeginsCase
    \/ RunnerInvokesBody
    \/ RunnerEndsCase
    \/ RunnerCompletes

\* The JavaScript job queue runs the continuation of an await once the
\* awaited promise has settled.
LiveSpec == Init /\ [][NextOfRun]_vars /\ WF_vars(SpecResolves) /\ WF_vars(SpecRejects)

(* ------------------------------ claims --------------------------------- *)

\* the positions of the log that hold an event of the given name
Indices(name) == {k \in 1..Len(log) : log[k].ev = name}
Count(name) == Cardinality(Indices(name))
IsSpecStep(e) == e.ev \in {"spec", "resolved"}

\* C1: the spec functions are invoked in the order of the specs array and one
\* at a time, spec i+1 only after the promise of spec i resolved; every spec
\* gets a scope of its own, which holds the cases of that spec only; and the
\* testSuites handed to the runner hold one scope per spec, in spec order.
C1_SpecsInOrderOneAtATime ==
    LET steps == SelectSeq(log, IsSpecStep)
    IN  /\ Len(steps) <= 2 * Len(props.specs)
        /\ \A k \in 1..Len(steps) :
              steps[k] = IF k % 2 = 1
                         THEN Event("spec", props.specs[(k + 1) \div 2])
                         ELSE Event("resolved", props.specs[k \div 2])
        /\ Len(scopes) = Count("spec")
        /\ \A j \in 1..Len(scopes) : \A c \in 1..Len(scopes[j].cases) :
              scopes[j].cases[c][1] = props.specs[j]
        /\ \A r \in 1..Len(runners) :
              runners[r].testSuites = [j \in 1..Len(props.specs) |-> j]

\* C1 witness: a run over two specs, each with a case, reached runner.run()
C1_Witness ==
    /\ runCalls = 1
    /\ Len(props.specs) >= 2
    /\ \A j \in 1..Len(scopes) : scopes[j].cases # << >>

\* C2: a runner exists or run() was invoked only when the promise of every
\* spec has resolved, and every invocation and resolution precedes them.
C2_RunAfterAllSpecsResolved ==
    (runners # << >> \/ runCalls > 0 \/ Count("run") > 0) =>
        /\ Count("resolved") = Len(props.specs)
        /\ Len(testSuites) = Len(props.specs)
        /\ runPc = "done"
        /\ \A k \in Indices("spec") \cup Indices("resolved") :
              \A m \in Indices("newRunner") \cup Indices("run") : k < m

\* C2 witness: run() was invoked after two specs resolved
C2_Witness == runCalls = 1 /\ Count("resolved") >= 2

\* C3: runTests is started once per mounted Tester, and at most one runner is
\* constructed and run, whatever reRender calls are made.
C3_OneRunPerMount ==
    /\ runTestsCalls <= 1
    /\ phase = "mounted" => runTestsCalls = 1
    /\ runCalls <= 1
    /\ Len(runners) <= 1
    /\ Count("run") <= 1
    /\ Count("newRunner") <= 1

\* C3 witness: reRender was called and the one run came to its end
C3_Witness == reRendered /\ runCalls = 1 /\ runnerPc = "complete" /\ caseIdx > 1

\* C4: a realtime reporter gets onStart exactly once per mount, and before the
\* body of any case is executed.
C4_OnStartOnceBeforeFirstCase ==
    Realtime(reporter) =>
        /\ Count("onStart") = IF phase = "mounted" THEN 1 ELSE 0
        /\ \A b \in Indices("body") : \E o \in Indices("onStart") : o < b

\* C4 witness: a realtime reporter is in use and a case body was executed
C4_Witness == Realtime(reporter) /\ Indices("body") # {}

\* C5 as claimed: a sink instance passed as the reporter option is accepted:
\* the constructor does not throw, the instance is the reporter in use and
\* the one handed to the runner, and it gets onStart on mount.
C5_SinkInstanceAccepted ==
    (props.reporter = SinkInstance /\ phase # "new") =>
        /\ error = "none"
        /\ reporter = SinkInstance
        /\ phase = "mounted" => Count("onStart") = 1
        /\ \A r \in 1..Len(runners) : runners[r].reporter = SinkInstance

\* C5 as amended: with a sink instance (an object that is not a function) as
\* the reporter option the constructor throws, a TypeError or a
\* ReferenceError; the Tester is never mounted, runTests is never started,
\* nothing is called on the instance and no runner is constructed.
C5_SinkInstanceRejected ==
    props.reporter = SinkInstance =>
        /\ phase \in {"new", "threw"}
        /\ phase = "threw" => error \in {"TypeError", "ReferenceError"}
        /\ reporter = Undefined
        /\ runTestsCalls = 0
        /\ log = << >>
        /\ runners = << >>

\* C5 witness: the constructor ran with a sink instance and `new` threw
C5_Witness == props.reporter = SinkInstance /\ phase = "threw" /\ error = "TypeError"

\* C6: with no reporter option a new instance of the built-in Reporter is the
\* reporter in use; with a function as the option that function is the
\* reporter in use and the one handed to the runner, and onStart is never
\* called.
C6_ReporterResolution ==
    phase # "new" =>
        /\ props.reporter = Undefined =>
              (error = "none" /\ reporter.ident = "new Reporter" /\ ~reporter.isFunction)
        /\ props.reporter.isFunction =>
              /\ error = "none"
              /\ reporter = props.reporter
              /\ \A r \in 1..Len(runners) : runners[r].reporter = props.reporter
              /\ Count("onStart") = 0

\* C7: the promise of clearAsync never rejects: once it has settled it is
\* resolved, whatever the storage operations did and whatever the option is,
\* and a failure of a storage operation shows as a logged warning only.
C7_ClearAsyncNeverRejects ==
    /\ clearOutcome \in {"none", "pending", "resolved"}
    /\ clearOutcome = "pending" <=> clearPc # "idle"
    /\ warned \in StorageErrors => (clearOutcome = "resolved" /\ props.clearAsyncStorage)
    /\ warned \in StorageErrors \cup {"none"}

\* C7 witness: multiRemove rejected, clearAsync resolved all the same and the
\* runner went on to the body of the case
C7_Witness == warned = "multiRemove rejected" /\ clearOutcome = "resolved" /\ runnerPc = "body"

\* the step in which clearAsync returns after getAllKeys and multiRemove both
\* succeeded, and its promise resolves
ClearAsyncResolvesAfterRemoval == clearPc = "removed" /\ clearPc' = "idle"

\* C8 as claimed: when both storage operations succeeded the store holds no
\* key at the moment clearAsync resolves, whatever was written meanwhile.
C8_StoreEmptyWhenResolved ==
    [][ClearAsyncResolvesAfterRemoval => store' = {}]_vars

\* C8 as amended: when both storage operations succeeded, the only keys the
\* store holds at the moment clearAsync resolves are keys that other work
\* wrote after getAllKeys enumerated the store; with no such write the store
\* is empty.
C8_OnlyLaterWritesRemain ==
    [][ClearAsyncResolvesAfterRemoval =>
          (store' \subseteq written /\ clearOutcome' = "resolved" /\ warned' = "none")]_vars

\* C8 witness: a key was enumerated and removed while a timed-out body was
\* still running, and clearAsync is about to resolve
C8_Witness == clearPc = "removed" /\ snapshot # {} /\ store = {} /\ lingering

\* the step in which the runner calls clearAsync
ClearAsyncIsCalled == runnerPc = "running" /\ runnerPc' = "clearing"

\* C9: with clearAsyncStorage false clearAsync calls neither getAllKeys nor
\* multiRemove, and the call resolves at once and leaves the store as it was.
C9_NoStorageOperationWhenOff ==
    [][~props.clearAsyncStorage =>
          /\ ~storageCalled'
          /\ clearPc' = "idle"
          /\ ClearAsyncIsCalled => (store' = store /\ clearOutcome' = "resolved")]_vars

\* C9 witness: clearAsync was called with the option off and a key in the
\* store, and resolved
C9_Witness ==
    /\ ~props.clearAsyncStorage
    /\ runnerPc = "clearing"
    /\ clearOutcome = "resolved"
    /\ store # {}

\* C10: a reRender call leaves the store instance, the reporter, the scopes
\* collected and handed to the runner and the registrations of the store as
\* they are, and the subtree is rendered with the store given at
\* construction before and after it.
C10_ReRenderChangesOnlyTheKey ==
    [][ReRender =>
          /\ UNCHANGED << testHookStore, reporter, testSuites, scopes, runners, hooks >>
          /\ rendered.value = props.store
          /\ rendered'.value = props.store
          /\ rendered'.key = key']_vars

\* C10 witness: reRender was called with an element registered and scopes
\* collected
C10_Witness == reRendered /\ hooks # {} /\ testSuites # << >> /\ rendered.key = key

\* the value of an option: the default when it was not supplied, else the
\* value supplied
Configured(given, default) == IF given = NotGiven THEN default ELSE given[1]

\* C11: options not supplied take the defaults waitTime 2000, startDelay 0 and
\* clearAsyncStorage false, supplied ones keep their value; every TestScope
\* is created with that one waitTime; and the runner is constructed with the
\* startDelay and the only filter of the props.
C11_DefaultsAndPassThrough ==
    /\ props.waitTime = Configured(props.given.waitTime, 2000)
    /\ props.startDelay = Configured(props.given.startDelay, 0)
    /\ props.clearAsyncStorage = Configured(props.given.clearAsyncStorage, FALSE)
    /\ \A j \in 1..Len(scopes) : scopes[j].waitTime = props.waitTime
    /\ \A r \in 1..Len(runners) :
          /\ runners[r].startDelay = props.startDelay
          /\ runners[r].only = props.only

\* C11 witness: a run with a configured waitTime created two scopes and its runner
C11_Witness ==
    /\ props.given.waitTime # NotGiven
    /\ props.waitTime # DefaultWaitTime
    /\ Len(scopes) >= 2
    /\ runCalls = 1

\* C12: with a realtime reporter and a non-empty specs array the first spec
\* function has been invoked, and its scope holds the cases it declared, when
\* onStart is called, and onStart is called before runner.run(); with an
\* empty specs array run() is invoked before onStart is called.
C12_OnStartRelativeToRun ==
    (Realtime(reporter) /\ phase = "mounted") =>
        /\ Count("onStart") = 1
        /\ \A o \in Indices("onStart") :
              IF props.specs # << >>
              THEN /\ log[1] = Event("spec", props.specs[1])
                   /\ o = 2
                   /\ scopes # << >>
                   /\ \A r \in Indices("newRunner") \cup Indices("run") : o < r
              ELSE /\ Count("run") = 1
                   /\ \A r \in Indices("newRunner") \cup Indices("run") : r < o

\* C12 witness: a realtime reporter got onStart after run() of a Tester with
\* no specs
C12_Witness ==
    /\ Realtime(reporter)
    /\ props.specs = << >>
    /\ Count("onStart") = 1
    /\ Count("run") = 1

\* the spec function invoked last threw, or returned a promise that rejects
\* or never settles
SpecFailed == runPc = "rejected" \/ awaited \in {"reject", "never"}

\* what holds of a run in which a spec failed: no later spec was invoked, no
\* runner was constructed or run, no report was delivered, and a realtime
\* reporter of the mounted Tester got its onStart
StoppedAtFailedSpec ==
    /\ Count("spec") = specIdx
    /\ Len(scopes) = specIdx
    /\ runners = << >>
    /\ runCalls = 0
    /\ Count("run") = 0
    /\ Count("report") = 0
    /\ runnerPc = "none"
    /\ (Realtime(reporter) /\ phase = "mounted") => Count("onStart") = 1

\* C13: run() is eventually invoked if and only if the promise of every spec
\* resolves: a mounted Tester gets to run() unless a spec failed; and a spec
\* that failed stays failed, and while it is the run is where that spec left
\* it.
C13_RunIffEverySpecResolves ==
    /\ (phase = "mounted") ~> (runCalls = 1 \/ SpecFailed)
    /\ [](SpecFailed => StoppedAtFailedSpec)
    /\ [][SpecFailed => SpecFailed']_vars

\* C13 witness: the first of two specs failed under a realtime reporter
C13_Witness ==
    /\ runPc = "rejected"
    /\ specIdx = 1
    /\ Len(props.specs) = 2
    /\ Realtime(reporter)
    /\ Count("onStart") = 1

\* C14: the case list of a scope that is in testSuites is changed by no step.
C14_ReadyScopeIsFrozen ==
    [][\A k \in 1..Len(testSuites) :
          scopes'[testSuites[k]].cases = scopes[testSuites[k]].cases]_vars

\* C15: a reporter class passed as the reporter option is instantiated with
\* new, the instance is the reporter in use and the one handed to the runner,
\* and an instance of type 'realtime' gets onStart on mount.
C15_ReporterClassInstantiated ==
    (props.reporter = ReporterClass /\ phase # "new") =>
        /\ error = "none"
        /\ reporter = NewInstance(ReporterClass, "realtime")
        /\ phase = "mounted" => Count("onStart") = 1
        /\ \A r \in 1..Len(runners) : runners[r].reporter = reporter

====
